---- MODULE Spec2Model ----
(***************************************************************************)
(* A model of lstests/core/helper.py: the text helpers (vislen, squeeze,   *)
(* pad, format_header), the scalar helper override, the response helper    *)
(* extract, and the structured-data helpers trim, abridge and format_json. *)
(*                                                                         *)
(* The helpers are stateless functions.  Each one is modelled as an        *)
(* operator computed the way the Python code computes it, and is exercised *)
(* by a small state machine: the initial state holds one call with its     *)
(* arguments drawn from bounded sets, and an action performs the call and  *)
(* stores what it returned or raised.  Python objects that are mutated in  *)
(* place (dict and list) live in an explicit heap of objects.              *)
(*                                                                         *)
(* Strings are sequences of one-character strings.  Python values are      *)
(* tagged records.                                                         *)
(***************************************************************************)
EXTENDS Integers, Sequences, FiniteSets, TLC

VARIABLES
    pc,     \* position of the caller: "start", "done", ...
    call,   \* the arguments of the call under way
    ret,    \* what the call returned or raised
    heap,   \* the Python objects (dict, list) alive, by address
    heap0   \* the heap as it was when the call was made

vars == <<pc, call, ret, heap, heap0>>

----------------------------------------------------------------------------
(* Python values and call outcomes *)

None == [t |-> "none"]
IntV(n) == [t |-> "int", n |-> n]
BoolV(b) == [t |-> "bool", b |-> b]
StrV(s) == [t |-> "str", s |-> s]
RefV(a) == [t |-> "ref", a |-> a]

NoRet == [kind |-> "none"]
Value(v) == [kind |-> "value", v |-> v]
Raise(e, a) == [kind |-> "raise", exc |-> e, arg |-> a]

NoHeap == [a \in {} |-> None]

\* Python truthiness of a value
Truthy(v) ==
    CASE v.t = "none" -> FALSE
      [] v.t = "int" -> v.n # 0
      [] v.t = "bool" -> v.b
      [] v.t = "str" -> Len(v.s) > 0
      [] OTHER -> TRUE

Min(a, b) == IF a < b THEN a ELSE b
Max(a, b) == IF a > b THEN a ELSE b

\* A slice bound as Python normalises it: negative counts from the end, then clamp
SliceIndex(k, n) == IF k < 0 THEN Max(n + k, 0) ELSE Min(k, n)

\* s[:k]
SliceTo(s, k) == SubSeq(s, 1, SliceIndex(k, Len(s)))

\* s[k:]
SliceFrom(s, k) == SubSeq(s, SliceIndex(k, Len(s)) + 1, Len(s))

\* c * n
Repeat(c, n) == [i \in 1..Max(n, 0) |-> c]

----------------------------------------------------------------------------
(* vislen and squeeze *)

ESC == "ESC"

Digits == {"0", "1", "2", "3", "4", "5", "6", "7", "8", "9"}

\* the first index >= i of s that holds no digit (Len(s)+1 when there is none)
RECURSIVE DigitsEnd(_, _)
DigitsEnd(s, i) ==
    IF i <= Len(s) /\ s[i] \in Digits THEN DigitsEnd(s, i + 1) ELSE i

\* the regular expression \033\[[0-9]+(;[0-9]+)?m matched at index i of s:
\* the index of the match's last character, 0 when there is no match at i
EscMatchEnd(s, i) ==
    IF ~(i + 1 <= Len(s) /\ s[i] = ESC /\ s[i + 1] = "[") THEN 0
    ELSE LET j == DigitsEnd(s, i + 2)
             k == DigitsEnd(s, j + 1)
         IN  IF j = i + 2 \/ j > Len(s) THEN 0
             ELSE IF s[j] = ";" /\ k > j + 1 /\ k <= Len(s) /\ s[k] = "m" THEN k
             ELSE IF s[j] = "m" THEN j
             ELSE 0

\* re.sub("", s): s without the non-overlapping matches, scanned from index i
RECURSIVE StripEsc(_, _)
StripEsc(s, i) ==
    IF i > Len(s) THEN <<>>
    ELSE IF EscMatchEnd(s, i) # 0 THEN StripEsc(s, EscMatchEnd(s, i) + 1)
    ELSE <<s[i]>> \o StripEsc(s, i + 1)

vislen(s) == Len(StripEsc(s, 1))

Marker == <<".", ".">>

squeeze_dropsTail(s, maxlen, tail) ==
    IF Len(s) <= maxlen THEN s
    ELSE SliceTo(s, maxlen - 2) \o Marker

squeeze(s, maxlen, tail) ==
    IF Len(s) <= maxlen THEN s
    ELSE SliceTo(s, maxlen - tail - 2) \o Marker
         \o (IF tail # 0 THEN SliceFrom(s, -tail) ELSE <<>>)

----------------------------------------------------------------------------
(* The squeeze calls *)

MaxSLen == 8
MaxMaxLen == 7
MaxTail == 3

Letters == <<"a", "b", "c", "d", "e", "f", "g", "h", "i", "j">>

\* a string of n characters, no two adjacent ones equal
Text(n) == [i \in 1..n |-> Letters[((i - 1) % 10) + 1]]

InitSqueeze ==
    /\ pc = "start"
    /\ \E n \in 0..MaxSLen, m \in 0..MaxMaxLen, tl \in 0..MaxTail :
          call = [s |-> Text(n), maxlen |-> m, tail |-> tl]
    /\ ret = NoRet
    /\ heap = NoHeap
    /\ heap0 = NoHeap

CallSqueeze ==
    /\ pc = "start"
    /\ pc' = "done"
    /\ ret' = Value(squeeze(call.s, call.maxlen, call.tail))
    /\ UNCHANGED <<call, heap, heap0>>

NextSqueeze == CallSqueeze

SpecSqueeze == InitSqueeze /\ [][NextSqueeze]_vars

\* C1: for tail >= 0 and maxLen - tail - 2 >= 0, squeeze returns s unchanged
\* when length(s) <= maxLen; otherwise the first maxLen - tail - 2 characters
\* of s, then "..", then the last tail characters of s, of length maxLen in all.
SqueezeContract ==
    (pc = "done" /\ call.tail >= 0 /\ call.maxlen - call.tail - 2 >= 0) =>
        LET s == call.s
            n == Len(call.s)
            head == call.maxlen - call.tail - 2
        IN  IF n <= call.maxlen
            THEN ret = Value(s)
            ELSE /\ ret.kind = "value"
                 /\ Len(ret.v) = call.maxlen
                 /\ \A i \in 1..head : ret.v[i] = s[i]
                 /\ ret.v[head + 1] = "." /\ ret.v[head + 2] = "."
                 /\ \A i \in 1..call.tail :
                       ret.v[head + 2 + i] = s[n - call.tail + i]

SqueezeWitness ==
    /\ pc = "done"
    /\ call.tail = 2 /\ call.maxlen = 6 /\ Len(call.s) = 8
    /\ ret = Value(<<"a", "b", ".", ".", "g", "h">>)

----------------------------------------------------------------------------
(* override *)

RECURSIVE override_scan(_, _)
\* for x in reversed(args): the scan at position i, going down
override_scan(args, i) ==
    IF i = 0 THEN None
    ELSE IF args[i].t # "none" THEN args[i]
    ELSE override_scan(args, i - 1)

RECURSIVE override_truthy_scan(_, _)
override_truthy_scan(args, i) ==
    IF i = 0 THEN None
    ELSE IF Truthy(args[i]) THEN args[i]
    ELSE override_truthy_scan(args, i - 1)

override_truthy(args) == override_truthy_scan(args, Len(args))

override(args) == override_scan(args, Len(args))

MaxArgs == 3

ArgValues == {None, IntV(0), IntV(1), StrV(<<>>), BoolV(FALSE)}

ArgLists == UNION {[1..n -> ArgValues] : n \in 0..MaxArgs}

InitOverride ==
    /\ pc = "start"
    /\ \E a \in ArgLists : call = [args |-> a]
    /\ ret = NoRet
    /\ heap = NoHeap
    /\ heap0 = NoHeap

CallOverride ==
    /\ pc = "start"
    /\ pc' = "done"
    /\ ret' = Value(override(call.args))
    /\ UNCHANGED <<call, heap, heap0>>

NextOverride == CallOverride

SpecOverride == InitOverride /\ [][NextOverride]_vars

NonNull(args) == {i \in 1..Len(args) : args[i] # None}

\* C5: override returns the non-null argument at the highest position, and
\* null exactly when every argument is null; 0, "" and false are non-null.
OverrideLastNonNull ==
    pc = "done" =>
        /\ ret.kind = "value"
        /\ (ret.v = None) <=> (NonNull(call.args) = {})
        /\ NonNull(call.args) # {} =>
              \E i \in NonNull(call.args) :
                  /\ \A j \in NonNull(call.args) : j <= i
                  /\ ret.v = call.args[i]

OverrideWitness ==
    /\ pc = "done"
    /\ call.args = <<IntV(1), IntV(0), None>>
    /\ ret = Value(IntV(0))

----------------------------------------------------------------------------
(* pad *)

\* str.ljust(width, fill)
ljust(s, width, fill) ==
    IF Len(s) >= width THEN s ELSE s \o Repeat(fill, width - Len(s))

pad_noOffset(text, total, left, char, sep, textlen) ==
    ljust(Repeat(char, left) \o sep \o text \o sep, total, char)

\* textlen is None or an int, the caller's hint of the visible length
pad(text, total, left, char, sep, textlen) ==
    LET tl == IF textlen.t = "none" THEN vislen(text) ELSE textlen.n
        offset == Len(text) - tl
    IN  ljust(Repeat(char, left) \o sep \o text \o sep, total + offset, char)

MaxPieces == 2
MaxTotal == 5
MaxLeft == 1

\* the pieces texts are made of: visible characters, whole color escape
\* sequences, and beginnings of one
Pieces == {
    <<"x">>, <<"m">>, <<"3">>, <<";">>, <<"[">>,
    <<ESC>>, <<ESC, "[">>, <<ESC, "[", "3">>, <<ESC, "[", "3", ";">>,
    <<ESC, "[", "3", ";", "3">>,
    <<ESC, "[", "3", "m">>, <<ESC, "[", "3", ";", "3", "m">> }

RECURSIVE Join(_)
Join(ps) == IF ps = <<>> THEN <<>> ELSE Head(ps) \o Join(Tail(ps))

PadTexts == {Join(ps) : ps \in UNION {[1..n -> Pieces] : n \in 0..MaxPieces}}

PadChars == {"-", "m"}

PadSeps == {<<>>, <<"m">>}

InitPad ==
    /\ pc = "start"
    /\ \E tx \in PadTexts, tot \in 0..MaxTotal, l \in 0..MaxLeft,
          c \in PadChars, sp \in PadSeps, tl \in {None, IntV(0)} :
          call = [text |-> tx, total |-> tot, left |-> l, char |-> c,
                  sep |-> sp, textlen |-> tl]
    /\ ret = NoRet
    /\ heap = NoHeap
    /\ heap0 = NoHeap

CallPad ==
    /\ pc = "start"
    /\ pc' = "done"
    /\ ret' = Value(pad(call.text, call.total, call.left, call.char,
                        call.sep, call.textlen))
    /\ UNCHANGED <<call, heap, heap0>>

NextPad == CallPad

SpecPad == InitPad /\ [][NextPad]_vars

IsPrefix(p, s) == Len(p) <= Len(s) /\ SubSeq(s, 1, Len(p)) = p

PadBody == Repeat(call.char, call.left) \o call.sep \o call.text \o call.sep

PadShape ==
    /\ ret.kind = "value"
    /\ IsPrefix(PadBody, ret.v)
    /\ vislen(ret.v)
         = Max(call.total, call.left + 2 * Len(call.sep) + vislen(call.text))
    /\ vislen(ret.v) >= call.total

\* text ends inside a color escape sequence: ESC, then possibly "[", digits,
\* ";", digits, and no closing "m"
EndsInsideEscape(text) ==
    \E i \in 1..Len(text) :
        /\ text[i] = ESC
        /\ \/ i = Len(text)
           \/ /\ text[i + 1] = "["
              /\ LET j == DigitsEnd(text, i + 2)
                 IN  \/ j > Len(text)
                     \/ /\ j > i + 2 /\ text[j] = ";"
                        /\ DigitsEnd(text, j + 1) > Len(text)

\* C7 as stated: for every text, with textlen not supplied, the result has
\* char*left + sep + text + sep as a prefix and its visible length is
\* max(total, left + 2*length(sep) + visibleLength(text)), never below total.
PadVisibleLengthAnyText ==
    (pc = "done" /\ call.textlen = None) => PadShape

\* C7 as amended: the same, for every text that does not end inside a color
\* escape sequence.
PadVisibleLength ==
    (pc = "done" /\ call.textlen = None /\ ~EndsInsideEscape(call.text))
        => PadShape

PadWitness ==
    /\ pc = "done"
    /\ call.textlen = None
    /\ call.text = <<ESC, "[", "3", "m", "x">>
    /\ call.total = 5 /\ call.left = 1 /\ call.char = "m" /\ call.sep = <<"m">>
    /\ Len(ret.v) = 9
    /\ vislen(ret.v) = 5

----------------------------------------------------------------------------
(* format_header *)

HORIZONTAL_DASH == "DASH"

LowerCase == <<"a", "b", "c", "d", "e", "f", "g", "h", "i", "j", "k", "l", "m",
               "n", "o", "p", "q", "r", "s", "t", "u", "v", "w", "x", "y", "z">>
UpperCase == <<"A", "B", "C", "D", "E", "F", "G", "H", "I", "J", "K", "L", "M",
               "N", "O", "P", "Q", "R", "S", "T", "U", "V", "W", "X", "Y", "Z">>

IsLower(c) == \E i \in 1..26 : LowerCase[i] = c
IsUpper(c) == \E i \in 1..26 : UpperCase[i] = c
IsCased(c) == IsLower(c) \/ IsUpper(c)

UpperChar(c) ==
    IF IsLower(c) THEN UpperCase[CHOOSE i \in 1..26 : LowerCase[i] = c] ELSE c
LowerChar(c) ==
    IF IsUpper(c) THEN LowerCase[CHOOSE i \in 1..26 : UpperCase[i] = c] ELSE c

\* str.upper()
StrUpper(s) == [i \in 1..Len(s) |-> UpperChar(s[i])]

\* str.title(): a cased character is upper-cased at the start of a word and
\* lower-cased after another cased character
StrTitle(s) ==
    [i \in 1..Len(s) |->
        IF i > 1 /\ IsCased(s[i - 1]) THEN LowerChar(s[i]) ELSE UpperChar(s[i])]

\* color.black_on_cyan(header): the header between a color escape sequence
\* and the reset sequence
black_on_cyan(s) ==
    <<ESC, "[", "3", "0", ";", "4", "6", "m">> \o s \o <<ESC, "[", "0", "m">>

\* pad(text, char=...) : a call that leaves out the required parameter total
pad_without_total(text, char) ==
    Raise("TypeError", <<"t", "o", "t", "a", "l">>)

INFO == <<"i", "n", "f", "o">>
DEBUG == <<"d", "e", "b", "u", "g">>
TRACE == <<"t", "r", "a", "c", "e">>

InfoPrefix == <<">", ">", ">", " ">>

format_header(header, level) ==
    LET upper == StrUpper(level)
    IN  IF upper = INFO THEN Value(InfoPrefix \o StrTitle(header))
        ELSE IF upper = DEBUG THEN pad_without_total(black_on_cyan(header), "-")
        ELSE IF upper = TRACE THEN pad_without_total(header, HORIZONTAL_DASH)
        ELSE Raise("RuntimeError", level)

MaxHeaderLen == 2

HeaderChars == {"a", "B", " "}

Headers == UNION {[1..n -> HeaderChars] : n \in 0..MaxHeaderLen}

Levels == {INFO, DEBUG, TRACE, StrUpper(INFO), StrUpper(DEBUG), StrUpper(TRACE),
           StrTitle(INFO), <<"b", "o", "g", "u", "s">>, <<>>}

InitHeader ==
    /\ pc = "start"
    /\ \E h \in Headers, l \in Levels : call = [header |-> h, level |-> l]
    /\ ret = NoRet
    /\ heap = NoHeap
    /\ heap0 = NoHeap

CallFormatHeader ==
    /\ pc = "start"
    /\ pc' = "done"
    /\ ret' = format_header(call.header, call.level)
    /\ UNCHANGED <<call, heap, heap0>>

NextHeader == CallFormatHeader

SpecHeader == InitHeader /\ [][NextHeader]_vars

\* s is p followed by zero or more copies of the fill character c
PaddedWith(s, p, c) ==
    /\ IsPrefix(p, s)
    /\ \A i \in (Len(p) + 1)..Len(s) : s[i] = c

\* C6: format_header returns a value for each of the levels "info", "debug"
\* and "trace" (">>> " + title-cased header; the highlighted header padded
\* with "-"; the raw header padded with the long dash), and fails, naming the
\* level, only for a level other than these three.
FormatHeaderLevels ==
    pc = "done" =>
        /\ call.level = INFO =>
              ret = Value(InfoPrefix \o StrTitle(call.header))
        /\ call.level = DEBUG =>
              /\ ret.kind = "value"
              /\ PaddedWith(ret.v, black_on_cyan(call.header), "-")
        /\ call.level = TRACE =>
              /\ ret.kind = "value"
              /\ PaddedWith(ret.v, call.header, HORIZONTAL_DASH)
        /\ call.level \notin {INFO, DEBUG, TRACE} =>
              ret = Raise("RuntimeError", call.level)
        /\ ret.kind = "raise" => call.level \notin {INFO, DEBUG, TRACE}

----------------------------------------------------------------------------
(* JSON-like values.  A tree is a scalar (StrV, IntV, BoolV, None), a dict   *)
(* [t |-> "dict", items |-> <<[k |-> key, v |-> tree], ...>>] with its keys  *)
(* in insertion order, or a list [t |-> "list", items |-> <<tree, ...>>].    *)
(* In the heap a dict or list object has the same shape, and an item that    *)
(* is itself a dict or list is a reference RefV(address) to that object.     *)

DictT(items) == [t |-> "dict", items |-> items]
ListT(items) == [t |-> "list", items |-> items]

IsContainer(v) == v.t \in {"dict", "list"}

IndexName == <<<<"0">>, <<"1">>, <<"2">>, <<"3">>>>

\* the value of item i of a dict or list, and the step that leads to it
ItemValue(obj, i) == IF obj.t = "dict" THEN obj.items[i].v ELSE obj.items[i]
ItemStep(obj, i) == IF obj.t = "dict" THEN obj.items[i].k ELSE IndexName[i]

\* the paths from the root of a tree to the dicts and lists in it
RECURSIVE ContainerPaths(_)
ContainerPaths(tree) ==
    IF ~IsContainer(tree) THEN {}
    ELSE {<<>>} \cup UNION {
            {<<ItemStep(tree, i)>> \o q : q \in ContainerPaths(ItemValue(tree, i))}
            : i \in 1..Len(tree.items)}

RECURSIVE SubTree(_, _)
SubTree(tree, path) ==
    IF path = <<>> THEN tree
    ELSE LET i == CHOOSE j \in 1..Len(tree.items) : ItemStep(tree, j) = Head(path)
         IN  SubTree(ItemValue(tree, i), Tail(path))

\* The address of the object built for the container at a path.  With
\* sharing, equal containers of the tree are one object.
Address(tree, path, shared) ==
    IF shared
    THEN [p |-> CHOOSE q \in ContainerPaths(tree) :
                    SubTree(tree, q) = SubTree(tree, path),
          gen |-> 0]
    ELSE [p |-> path, gen |-> 0]

HeapValue(tree, child, path, shared) ==
    IF IsContainer(child) THEN RefV(Address(tree, path, shared)) ELSE child

HeapObject(tree, path, shared) ==
    LET node == SubTree(tree, path)
    IN  [t |-> node.t,
         items |-> [i \in 1..Len(node.items) |->
            LET hv == HeapValue(tree, ItemValue(node, i),
                                path \o <<ItemStep(node, i)>>, shared)
            IN  IF node.t = "dict" THEN [k |-> node.items[i].k, v |-> hv] ELSE hv]]

\* the objects a parsed or literal tree consists of
Allocate(tree, shared) ==
    [a \in {Address(tree, q, shared) : q \in ContainerPaths(tree)}
        |-> HeapObject(tree, a.p, shared)]

\* the tree a heap value stands for
RECURSIVE TreeOf(_, _)
TreeOf(h, v) ==
    IF v.t # "ref" THEN v
    ELSE LET obj == h[v.a]
         IN  [t |-> obj.t,
              items |-> [i \in 1..Len(obj.items) |->
                 IF obj.t = "dict"
                 THEN [k |-> obj.items[i].k, v |-> TreeOf(h, obj.items[i].v)]
                 ELSE TreeOf(h, obj.items[i])]]

Refs(obj) ==
    {ItemValue(obj, i).a : i \in {j \in 1..Len(obj.items) : ItemValue(obj, j).t = "ref"}}

RECURSIVE ReachFrom(_, _, _)
ReachFrom(h, frontier, seen) ==
    IF frontier = {} THEN seen
    ELSE LET now == seen \cup frontier
         IN  ReachFrom(h, (UNION {Refs(h[a]) : a \in frontier}) \ now, now)

\* the objects reachable from the object at address a
Reach(h, a) == ReachFrom(h, {a}, {})

----------------------------------------------------------------------------
(* trim and abridge *)

RECURSIVE trim(_, _, _)

trim_dict_item_tail4(h, a, i, maxlen) ==
    LET v == h[a].items[i].v
    IN  IF v.t = "ref" THEN trim(h, v.a, maxlen)
        ELSE IF v.t = "str" /\ Len(v.s) > maxlen
        THEN [h EXCEPT ![a].items[i].v = StrV(squeeze(v.s, maxlen, 4))]
        ELSE h

\* one round of "for key in data" (lines 171-175)
trim_dict_item(h, a, i, maxlen) ==
    LET v == h[a].items[i].v
    IN  IF v.t = "ref" THEN trim(h, v.a, maxlen)
        ELSE IF v.t = "str" /\ Len(v.s) > maxlen
        THEN [h EXCEPT ![a].items[i].v = StrV(squeeze(v.s, maxlen, 3))]
        ELSE h

trim_list_item_stores(h, a, i, maxlen) ==
    LET item == h[a].items[i]
    IN  IF item.t = "ref" THEN trim(h, item.a, maxlen)
        ELSE IF item.t = "str" /\ Len(item.s) > maxlen
        THEN [h EXCEPT ![a].items[i] = StrV(squeeze(item.s, maxlen, 3))]
        ELSE h

trim_list_item_skips_containers(h, a, i, maxlen) == h

\* one round of "for item in data" (lines 178-182): the squeezed string is
\* bound to the loop variable only, the list keeps its element
trim_list_item(h, a, i, maxlen) ==
    LET item == h[a].items[i]
    IN  IF item.t = "ref" THEN trim(h, item.a, maxlen)
        ELSE IF item.t = "str" /\ Len(item.s) > maxlen
        THEN LET rebound == StrV(squeeze(item.s, maxlen, 3)) IN h
        ELSE h

RECURSIVE trim_from(_, _, _, _)
\* the loop over the items of the object at a, from item i on
trim_from(h, a, i, maxlen) ==
    IF i > Len(h[a].items) THEN h
    ELSE trim_from(IF h[a].t = "dict" THEN trim_dict_item(h, a, i, maxlen)
                   ELSE trim_list_item(h, a, i, maxlen),
                   a, i + 1, maxlen)

\* trim(data, maxlen) for data the dict or list at address a: the heap after
trim(h, a, maxlen) == trim_from(h, a, 1, maxlen)

\* the generation of addresses no object of h has
FreshGen(h) == 1 + (CHOOSE g \in {x.gen : x \in DOMAIN h} :
                        \A x \in DOMAIN h : x.gen <= g)

deepcopy_shallow(h, a) ==
    LET new == [p |-> a.p, gen |-> FreshGen(h)]
    IN  [heap |-> [x \in DOMAIN h \cup {new} |-> IF x = new THEN h[a] ELSE h[x]],
         root |-> new]

\* copy.deepcopy of the object at a: every reachable object is copied once,
\* and the copies refer to copies
deepcopy(h, a) ==
    LET g == FreshGen(h)
        old == Reach(h, a)
        New(x) == [p |-> x.p, gen |-> g + x.gen]
        CopyValue(v) == IF v.t = "ref" THEN RefV(New(v.a)) ELSE v
        CopyObject(obj) ==
            [t |-> obj.t,
             items |-> [i \in 1..Len(obj.items) |->
                IF obj.t = "dict"
                THEN [k |-> obj.items[i].k, v |-> CopyValue(obj.items[i].v)]
                ELSE CopyValue(obj.items[i])]]
    IN  [heap |-> [x \in DOMAIN h \cup {New(o) : o \in old} |->
                     IF x \in DOMAIN h THEN h[x]
                     ELSE CopyObject(h[CHOOSE o \in old : New(o) = x])],
         root |-> New(a)]

\* abridge(data, maxlen): the heap after, and the address of the clone
abridge(h, a, maxlen) ==
    LET c == deepcopy(h, a)
    IN  [heap |-> trim(c.heap, c.root, maxlen), root |-> c.root]

----------------------------------------------------------------------------
(* The trim and abridge calls *)

MaxStrLen == 8
MaxTrimLen == 6

KeyA == <<"a">>
KeyB == <<"b">>

\* the dicts with keys among a, b and the lists of up to two items over vs
DictsOver(vs) ==
    {DictT(<<>>)}
    \cup {DictT(<<[k |-> k, v |-> v]>>) : k \in {KeyA, KeyB}, v \in vs}
    \cup {DictT(<<[k |-> KeyA, v |-> v], [k |-> KeyB, v |-> w]>>) : v \in vs, w \in vs}

ListsOver(vs) ==
    {ListT(<<>>)} \cup {ListT(<<v>>) : v \in vs} \cup {ListT(<<v, w>>) : v \in vs, w \in vs}

TrimLeaves == {StrV(Text(5)), StrV(Text(MaxStrLen)), IntV(1)}

TrimLevel1 == DictsOver(TrimLeaves) \cup ListsOver(TrimLeaves)

TrimLevel2 ==
    DictsOver(TrimLeaves \cup TrimLevel1) \cup ListsOver(TrimLeaves \cup TrimLevel1)

TrimLevel3 ==
    {DictT(<<[k |-> KeyA, v |-> v]>>) : v \in TrimLevel2}
    \cup {ListT(<<v>>) : v \in TrimLevel2}

TrimData == TrimLevel2 \cup TrimLevel3

Root == [p |-> <<>>, gen |-> 0]

InitTrim ==
    /\ pc = "start"
    /\ \E tree \in TrimData, shared \in BOOLEAN, m \in 4..MaxTrimLen :
          /\ heap = Allocate(tree, shared)
          /\ call = [data |-> Root, maxlen |-> m]
    /\ heap0 = heap
    /\ ret = NoRet

\* trim(data, maxlen)
CallTrim ==
    /\ pc = "start"
    /\ pc' = "trimmed"
    /\ heap' = trim(heap, call.data, call.maxlen)
    /\ ret' = Value(None)
    /\ UNCHANGED <<call, heap0>>

\* trim(data, maxlen) once more on the same data
CallTrimAgain ==
    /\ pc = "trimmed"
    /\ pc' = "retrimmed"
    /\ heap0' = heap
    /\ heap' = trim(heap, call.data, call.maxlen)
    /\ ret' = Value(None)
    /\ UNCHANGED call

\* abridge(data, maxlen)
CallAbridge ==
    /\ pc = "start"
    /\ pc' = "abridged"
    /\ LET r == abridge(heap, call.data, call.maxlen)
       IN  /\ heap' = r.heap
           /\ ret' = Value(RefV(r.root))
    /\ UNCHANGED <<call, heap0>>

NextTrim == CallTrim \/ CallTrimAgain \/ CallAbridge

SpecTrim == InitTrim /\ [][NextTrim]_vars

\* the objects trim(data) reaches
Reached == Reach(heap0, call.data)

IsLong(v) == v.t = "str" /\ Len(v.s) > call.maxlen

\* s with its middle elided: the first maxlen - 5 characters, "..", the last 3
Elided(s) ==
    SubSeq(s, 1, call.maxlen - 5) \o <<".", ".">> \o SubSeq(s, Len(s) - 2, Len(s))

\* C2: after trim(data, maxLen) with maxLen >= 5, every over-long string that
\* was the value of a mapping key, at any depth reached through mappings and
\* sequences, has been replaced by its squeezed form of length maxLen.
TrimShortensMappingValues ==
    (pc = "trimmed" /\ call.maxlen >= 5) =>
        \A a \in Reached :
            heap0[a].t = "dict" =>
                \A i \in 1..Len(heap0[a].items) :
                    IsLong(heap0[a].items[i].v) =>
                        /\ heap[a].items[i].v = StrV(Elided(heap0[a].items[i].v.s))
                        /\ Len(heap[a].items[i].v.s) = call.maxlen

\* a mapping inside a sequence inside a mapping had its long value shortened
TrimShortensWitness ==
    /\ pc = "trimmed"
    /\ call.maxlen = 6
    /\ \E a \in Reached :
          /\ Len(a.p) = 2
          /\ heap0[a].t = "dict"
          /\ heap0[[p |-> SubSeq(a.p, 1, 1), gen |-> 0]].t = "list"
          /\ heap0[Root].t = "dict"
          /\ \E i \in 1..Len(heap0[a].items) :
                /\ IsLong(heap0[a].items[i].v)
                /\ heap[a].items[i].v = StrV(<<"a", ".", ".", "f", "g", "h">>)

AbridgeLeavesOriginal ==
    pc = "abridged" =>
        /\ \A a \in DOMAIN heap0 : a \in DOMAIN heap /\ heap[a] = heap0[a]
        /\ ret.kind = "value" /\ ret.v.t = "ref"
        /\ ret.v.a \notin DOMAIN heap0
        /\ TreeOf(heap, ret.v)
             = TreeOf(trim(heap0, call.data, call.maxlen), RefV(call.data))

\* a nested mapping held an over-long string: the clone differs from data
AbridgeWitness ==
    /\ pc = "abridged"
    /\ call.maxlen >= 5
    /\ \E a \in Reached :
          /\ a # Root
          /\ heap0[a].t = "dict"
          /\ \E i \in 1..Len(heap0[a].items) : IsLong(heap0[a].items[i].v)
    /\ TreeOf(heap, ret.v) # TreeOf(heap0, RefV(call.data))
    /\ TreeOf(heap, RefV(call.data)) = TreeOf(heap0, RefV(call.data))

----------------------------------------------------------------------------
(* JSON text.  A text is a sequence of tokens: the six punctuation marks,   *)
(* a literal (a string, a number, true, false, null) and white space (a     *)
(* line break followed by n blanks).                                        *)

Punct(c) == [k |-> c]
Lit(v) == [k |-> "lit", v |-> v]
NewLine(n) == [k |-> "ws", n |-> n]

\* the white space json.dumps puts before an item at the given depth
Indent(indent, depth) ==
    IF indent.t = "none" THEN <<>> ELSE <<NewLine(indent.n * depth)>>

RECURSIVE dumps_at(_, _, _)
RECURSIVE dumps_items(_, _, _, _)

\* the items of a dict or list from item i on, separated by commas
dumps_items(tree, i, indent, depth) ==
    IF i > Len(tree.items) THEN <<>>
    ELSE (IF i > 1 THEN <<Punct(",")>> ELSE <<>>)
         \o Indent(indent, depth)
         \o (IF tree.t = "dict"
             THEN <<Lit(StrV(tree.items[i].k)), Punct(":")>> ELSE <<>>)
         \o dumps_at(ItemValue(tree, i), indent, depth)
         \o dumps_items(tree, i + 1, indent, depth)

dumps_at(tree, indent, depth) ==
    IF ~IsContainer(tree) THEN <<Lit(tree)>>
    ELSE LET open == IF tree.t = "dict" THEN "{" ELSE "["
             close == IF tree.t = "dict" THEN "}" ELSE "]"
         IN  IF tree.items = <<>> THEN <<Punct(open), Punct(close)>>
             ELSE <<Punct(open)>>
                  \o dumps_items(tree, 1, indent, depth + 1)
                  \o Indent(indent, depth)
                  \o <<Punct(close)>>

\* json.dumps(data, indent=indent, sort_keys=False)
dumps(tree, indent) == dumps_at(tree, indent, 0)

ParseError == [ok |-> FALSE]
Parsed(v, next) == [ok |-> TRUE, v |-> v, next |-> next]

\* text without its white space
RECURSIVE Significant(_)
Significant(text) ==
    IF text = <<>> THEN <<>>
    ELSE (IF Head(text).k = "ws" THEN <<>> ELSE <<Head(text)>>)
         \o Significant(Tail(text))

Is(toks, i, c) == i <= Len(toks) /\ toks[i].k = c

\* d[key] = v on the pairs of a dict: a key that is there keeps its place
SetItem(items, key, v) ==
    IF \E j \in 1..Len(items) : items[j].k = key
    THEN [j \in 1..Len(items) |->
            IF items[j].k = key THEN [k |-> key, v |-> v] ELSE items[j]]
    ELSE Append(items, [k |-> key, v |-> v])

RECURSIVE parse_value(_, _)
RECURSIVE parse_members(_, _, _)
RECURSIVE parse_elements(_, _, _)

\* "key": value, then "," and more members or "}"
parse_members(toks, i, acc) ==
    IF ~(Is(toks, i, "lit") /\ toks[i].v.t = "str" /\ Is(toks, i + 1, ":"))
    THEN ParseError
    ELSE LET r == parse_value(toks, i + 2)
         IN  IF ~r.ok THEN ParseError
             ELSE LET items == SetItem(acc, toks[i].v.s, r.v)
                  IN  IF Is(toks, r.next, ",")
                      THEN parse_members(toks, r.next + 1, items)
                      ELSE IF Is(toks, r.next, "}")
                      THEN Parsed(DictT(items), r.next + 1)
                      ELSE ParseError

\* value, then "," and more elements or "]"
parse_elements(toks, i, acc) ==
    LET r == parse_value(toks, i)
    IN  IF ~r.ok THEN ParseError
        ELSE IF Is(toks, r.next, ",")
        THEN parse_elements(toks, r.next + 1, Append(acc, r.v))
        ELSE IF Is(toks, r.next, "]")
        THEN Parsed(ListT(Append(acc, r.v)), r.next + 1)
        ELSE ParseError

parse_value(toks, i) ==
    IF Is(toks, i, "lit") THEN Parsed(toks[i].v, i + 1)
    ELSE IF Is(toks, i, "{")
    THEN IF Is(toks, i + 1, "}") THEN Parsed(DictT(<<>>), i + 2)
         ELSE parse_members(toks, i + 1, <<>>)
    ELSE IF Is(toks, i, "[")
    THEN IF Is(toks, i + 1, "]") THEN Parsed(ListT(<<>>), i + 2)
         ELSE parse_elements(toks, i + 1, <<>>)
    ELSE ParseError

\* json.loads(text): the tree, or a parse error (also for text after the value)
loads(text) ==
    LET toks == Significant(text)
        r == parse_value(toks, 1)
    IN  IF r.ok /\ r.next = Len(toks) + 1 THEN r ELSE ParseError

----------------------------------------------------------------------------
(* extract *)

HasKey(tree, key) == \E j \in 1..Len(tree.items) : tree.items[j].k = key

\* obj[key] for a str key: the value, KeyError, or TypeError when obj is no dict
getitem(obj, key) ==
    IF obj.t = "dict"
    THEN IF HasKey(obj, key)
         THEN Value(obj.items[CHOOSE j \in 1..Len(obj.items) : obj.items[j].k = key].v)
         ELSE Raise("KeyError", key)
    ELSE Raise("TypeError", key)

extract_catches_nothing(text, key, fallback) ==
    LET p == loads(text)
    IN  IF ~p.ok THEN Raise("JSONDecodeError", key) ELSE getitem(p.v, key)

\* extract(resp, key, fallback), text the body resp.text
extract(text, key, fallback) ==
    LET p == loads(text)
    IN  IF ~p.ok THEN Raise("JSONDecodeError", key)
        ELSE LET r == getitem(p.v, key)
             IN  IF r.kind = "raise" /\ r.exc = "KeyError" THEN Value(fallback)
                 ELSE r

ExtractLeaves == {StrV(<<"x">>), IntV(1), None}

ExtractTrees ==
    ExtractLeaves \cup DictsOver(ExtractLeaves) \cup ListsOver(ExtractLeaves)
    \cup {DictT(<<[k |-> KeyB, v |-> IntV(1)], [k |-> KeyA, v |-> DictT(<<>>)]>>)}

\* the beginnings of a text that stop short of its end
Truncations(text) == {SubSeq(text, 1, n) : n \in 0..(Len(text) - 1)}

ExtractBodies ==
    {dumps(tree, None) : tree \in ExtractTrees}
    \cup UNION {Truncations(dumps(tree, None)) : tree \in ExtractTrees}
    \cup {<<Punct("{"), Lit(StrV(KeyA)), Punct(":"), Lit(IntV(1)), Punct(","),
            Lit(StrV(KeyA)), Punct(":"), Lit(None), Punct("}")>>,
          <<Punct("{"), Punct("}"), Punct("}")>>,
          <<Punct("{"), Lit(IntV(1)), Punct(":"), Lit(IntV(1)), Punct("}")>>}

ExtractKeys == {KeyA, KeyB, <<"c">>}

Fallbacks == {None, StrV(<<"f">>)}

InitExtract ==
    /\ pc = "start"
    /\ \E b \in ExtractBodies, k \in ExtractKeys, f \in Fallbacks :
          call = [text |-> b, key |-> k, fallback |-> f]
    /\ ret = NoRet
    /\ heap = NoHeap
    /\ heap0 = NoHeap

CallExtract ==
    /\ pc = "start"
    /\ pc' = "done"
    /\ ret' = extract(call.text, call.key, call.fallback)
    /\ UNCHANGED <<call, heap, heap0>>

NextExtract == CallExtract

SpecExtract == InitExtract /\ [][NextExtract]_vars

Body == loads(call.text)

\* key is present in the parsed body
KeyPresent == Body.v.t = "dict" /\ HasKey(Body.v, call.key)

\* C8 as stated: extract returns parsed[key] when the body parses and key is
\* present, fallback in every case where the body parses and key is not
\* present, and raises only when the body is malformed JSON.
ExtractRaisesOnlyOnMalformed ==
    pc = "done" =>
        /\ (Body.ok /\ KeyPresent) => ret = getitem(Body.v, call.key)
        /\ (Body.ok /\ ~KeyPresent) => ret = Value(call.fallback)
        /\ ret.kind = "raise" => ~Body.ok

\* C8 as amended: extract returns parsed[key] when the body parses to a
\* mapping that holds key, fallback when it parses to a mapping without key,
\* and raises when the body is malformed JSON or parses to a sequence or a
\* scalar.
ExtractFallbackOnMappings ==
    pc = "done" =>
        /\ (Body.ok /\ KeyPresent) =>
              /\ ret.kind = "value"
              /\ \E j \in 1..Len(Body.v.items) :
                    Body.v.items[j] = [k |-> call.key, v |-> ret.v]
        /\ (Body.ok /\ Body.v.t = "dict" /\ ~KeyPresent) => ret = Value(call.fallback)
        /\ ret.kind = "raise" <=> (~Body.ok \/ Body.v.t # "dict")

ExtractWitness ==
    /\ pc = "done"
    /\ call.text = <<Punct("{"), Lit(StrV(KeyA)), Punct(":"), Lit(IntV(1)), Punct("}")>>
    /\ call.key = KeyB
    /\ call.fallback = StrV(<<"f">>)
    /\ ret = Value(StrV(<<"f">>))

----------------------------------------------------------------------------
(* format_json *)

TRIM_MAXLEN == 100
JSON_INDENT == 4

format_json_trims_to_maxlen(text, maxlen) ==
    LET p == loads(text)
    IN  IF ~p.ok THEN Raise("JSONDecodeError", None)
        ELSE IF ~IsContainer(p.v) THEN Value(dumps(p.v, IntV(JSON_INDENT)))
        ELSE LET h == Allocate(p.v, FALSE)
                 after == IF Truthy(maxlen) THEN trim(h, Root, maxlen.n) ELSE h
             IN  Value(dumps(TreeOf(after, RefV(Root)), IntV(JSON_INDENT)))

\* format_json(text, maxlen): data is the object json.loads makes; trim acts
\* on a dict or list only
format_json(text, maxlen) ==
    LET p == loads(text)
    IN  IF ~p.ok THEN Raise("JSONDecodeError", None)
        ELSE IF ~IsContainer(p.v) THEN Value(dumps(p.v, IntV(JSON_INDENT)))
        ELSE LET h == Allocate(p.v, FALSE)
                 after == IF Truthy(maxlen) THEN trim(h, Root, TRIM_MAXLEN) ELSE h
             IN  Value(dumps(TreeOf(after, RefV(Root)), IntV(JSON_INDENT)))

ShortLen == 7

JsonLeaves ==
    {StrV(Text(ShortLen)), StrV(Text(TRIM_MAXLEN)), StrV(Text(TRIM_MAXLEN + 1)), IntV(1)}

JsonLevel1 == DictsOver(JsonLeaves) \cup ListsOver(JsonLeaves)

JsonTrees ==
    JsonLeaves \cup JsonLevel1
    \cup {DictT(<<[k |-> KeyA, v |-> v]>>) : v \in JsonLevel1}
    \cup {ListT(<<v>>) : v \in JsonLevel1}

JsonTexts ==
    {dumps(tree, None) : tree \in JsonTrees}
    \cup {dumps(tree, IntV(2)) : tree \in DictsOver({IntV(1)})}
    \cup {<<Punct("{")>>, <<Punct("["), Lit(IntV(1))>>}

MaxlenArgs == {None, IntV(0), IntV(5), IntV(TRIM_MAXLEN), IntV(2 * TRIM_MAXLEN)}

InitFormatJson ==
    /\ pc = "start"
    /\ \E tx \in JsonTexts, m \in MaxlenArgs : call = [text |-> tx, maxlen |-> m]
    /\ ret = NoRet
    /\ heap = NoHeap
    /\ heap0 = NoHeap

CallFormatJson ==
    /\ pc = "start"
    /\ pc' = "done"
    /\ ret' = format_json(call.text, call.maxlen)
    /\ UNCHANGED <<call, heap, heap0>>

NextFormatJson == CallFormatJson

SpecFormatJson == InitFormatJson /\ [][NextFormatJson]_vars

\* tree with every mapping string value longer than limit elided to limit
\* characters (the first limit - 5, "..", the last 3)
RECURSIVE Shortened(_, _)
Shortened(tree, limit) ==
    IF ~IsContainer(tree) THEN tree
    ELSE [t |-> tree.t,
          items |-> [i \in 1..Len(tree.items) |->
            LET v == ItemValue(tree, i)
                w == IF IsContainer(v) THEN Shortened(v, limit)
                     ELSE IF tree.t = "dict" /\ v.t = "str" /\ Len(v.s) > limit
                     THEN StrV(SubSeq(v.s, 1, limit - 5) \o <<".", ".">>
                               \o SubSeq(v.s, Len(v.s) - 2, Len(v.s)))
                     ELSE v
            IN  IF tree.t = "dict" THEN [k |-> tree.items[i].k, v |-> w] ELSE w]]

\* C9: format_json trims with the fixed threshold 100 whenever maxlen is
\* truthy, whatever its value (so a mapping string value of length between
\* maxlen + 1 and 100 stays as it is), and shortens nothing when maxlen is
\* falsy.
FormatJsonFixedThreshold ==
    (pc = "done" /\ loads(call.text).ok) =>
        ret = Value(dumps(IF Truthy(call.maxlen)
                          THEN Shortened(loads(call.text).v, 100)
                          ELSE loads(call.text).v,
                          IntV(4)))

FormatJsonWitness ==
    /\ pc = "done"
    /\ call.maxlen = IntV(5)
    /\ loads(call.text).ok
    /\ loads(call.text).v =
          DictT(<<[k |-> KeyA, v |-> StrV(Text(7))], [k |-> KeyB, v |-> StrV(Text(101))]>>)
    /\ loads(ret.v).v =
          DictT(<<[k |-> KeyA, v |-> StrV(Text(7))],
                  [k |-> KeyB, v |-> StrV(Text(95) \o <<".", ".", "i", "j", "a">>)]>>)

====
